---- MODULE Spec2Model ----
(***************************************************************************)
(* Model of marcha_aleatoria.py: a one-dimensional random walk (marcha),   *)
(* its aggregation over runs (pos_finales), the moments and the linear fit *)
(* (momentos_vs_N), the histogram action (histograma) and the text menu    *)
(* loop (menu, main).                                                      *)
(*                                                                         *)
(* Input lines are sequences of one-character strings.  Floating point     *)
(* numbers are exact rationals [num, den] with den > 0; NaN is 0/0.        *)
(***************************************************************************)
EXTENDS Integers, Sequences, FiniteSets, TLC

VARIABLES
    pc,         \* position of main(): the statement about to run
    err,        \* the unhandled exception that ended the program, or NoErr
    opcion,     \* main: opcion
    N,          \* main: N
    runs,       \* main: runs
    pos_final,  \* main: pos_final
    finales,    \* main: finales
    lista,      \* main: lista
    N_vals,     \* main: N_vals
    medios,     \* main: medios
    medios_x2,  \* main: medios_x2
    slope,      \* main: slope
    D,          \* main: D
    u,          \* main: u (loop variable of the results table)
    v,          \* main: v (loop variable of the results table)
    pf,         \* the running call of pos_finales (its locals), if any
    mo,         \* the running call of momentos_vs_N (its locals), if any
    line,       \* the last line read from standard input
    prompts,    \* number of menu prompts shown so far
    out,        \* what was written or shown since the last menu prompt
    asked,      \* number of parameter prompts since the last menu prompt
    walked      \* number of calls of marcha since the last menu prompt

vars == << pc, err, opcion, N, runs, pos_final, finales, lista, N_vals, medios,
           medios_x2, slope, D, u, v, pf, mo, line, prompts, out, asked, walked >>

mainLocals == << opcion, N, runs, pos_final, finales, lista, N_vals, medios,
                 medios_x2, slope, D, u, v >>

----------------------------------------------------------------------------
(* Bounds of the model *)

MaxSteps == 12     \* largest step count of a single walk (SpecMarcha)
MaxN == 2          \* largest step count in a list of N values (SpecMom)
MaxRuns == 2       \* largest run count (SpecMom)
MaxList == 3       \* longest list of N values (SpecMom)
MaxTotal == 5      \* most steps a list of N values asks for in all (SpecMom)
MaxPrompts == 2    \* number of menu prompts followed (Spec)

(* Program constants *)

step_length == 1
deg == 1

Unbound == "unbound"
NoErr == "none"

----------------------------------------------------------------------------
(* Python values *)

Int64(x) == [type |-> "int64", val |-> x]

Returned(x) == [exc |-> "none", val |-> x]
Raised(e) == [exc |-> e, val |-> Unbound]

(* float64 values as exact rationals *)

Abs(x) == IF x < 0 THEN -x ELSE x

RECURSIVE GCD(_, _)
GCD(a, b) == IF b = 0 THEN a ELSE GCD(b, a % b)

NaN == [num |-> 0, den |-> 0]
IsNaN(r) == r.den = 0

Rat(n, d) ==
    IF d = 0 THEN NaN
    ELSE LET g == GCD(Abs(n), Abs(d))
             s == IF d < 0 THEN -1 ELSE 1
         IN [num |-> s * (n \div g), den |-> s * (d \div g)]

Float(x) == [num |-> x, den |-> 1]

RAdd(a, b) == IF IsNaN(a) \/ IsNaN(b) THEN NaN
              ELSE Rat(a.num * b.den + b.num * a.den, a.den * b.den)
RSub(a, b) == IF IsNaN(a) \/ IsNaN(b) THEN NaN
              ELSE Rat(a.num * b.den - b.num * a.den, a.den * b.den)
RMul(a, b) == IF IsNaN(a) \/ IsNaN(b) THEN NaN
              ELSE Rat(a.num * b.num, a.den * b.den)
RDiv(a, b) == IF IsNaN(a) \/ IsNaN(b) THEN NaN
              ELSE Rat(a.num * b.den, a.den * b.num)

RECURSIVE RSum(_)
RSum(s) == IF Len(s) = 0 THEN Float(0) ELSE RAdd(Head(s), RSum(Tail(s)))

Squares(s) == [i \in 1..Len(s) |-> RMul(s[i], s[i])]

(* A float64 that rounded operations compute is written by the rational r *)
(* it stands for and the sides rnd on which its rounding error can leave  *)
(* it: below r (-1), on r (0), above r (1).                               *)
Approx(r, e) == [num |-> r.num, den |-> r.den,
                 rnd |-> IF IsNaN(r) THEN {0} ELSE e]

(* the rational a float64 stands for *)
Nominal(x) == [num |-> x.num, den |-> x.den]

(* the significant bits of a float64 *)
MantissaBits == 53

RECURSIVE Normal(_, _)
(* a / b, a > 0, b > 0, scaled by a power of two into [1, 2) *)
Normal(a, b) == IF a >= 2 * b THEN Normal(a, 2 * b)
                ELSE IF a < b THEN Normal(2 * a, b)
                ELSE << a, b >>

RECURSIVE DivBits(_, _, _, _)
(* k more bits of the quotient by long division, four bits at a step (k *)
(* is a multiple of 4): the remainder left and the last bit written;    *)
(* with nothing left every further bit is 0                             *)
DivBits(r, b, k, last) ==
    IF k = 0 \/ r = 0 THEN << r, last >>
    ELSE DivBits((16 * r) % b, b, k - 4, ((16 * r) \div b) % 2)

(* the side on which the IEEE division p / q, rounded to nearest with ties *)
(* to even, leaves its float64 result                                      *)
RoundSide(p, q) ==
    IF p = 0 THEN 0
    ELSE LET n == Normal(Abs(p), q)
             d == DivBits(n[1] - n[2], n[2], MantissaBits - 1, 1)
             up == 2 * d[1] > n[2] \/ (2 * d[1] = n[2] /\ d[2] = 1)
             side == IF d[1] = 0 THEN 0 ELSE IF up THEN 1 ELSE -1
         IN IF p < 0 THEN -side ELSE side

(* ndarray.mean() of integer-valued floats: their sum, which is exact, *)
(* divided in float64 by the count; 0/0 for an empty array             *)
Mean(s) ==
    IF Len(s) = 0 THEN Approx(NaN, {0})
    ELSE LET q == RDiv(RSum(s), Float(Len(s)))
         IN Approx(q, { RoundSide(q.num, q.den) })

----------------------------------------------------------------------------
(* marcha *)

(* a slip that draws from [0, step_length] *)
ChoicesOneSided(n) == [1..n -> {0, step_length}]

(* The draws random.choice([-step_length, step_length], size=n) can give *)
Choices(n) == [1..n -> {-step_length, step_length}]

RECURSIVE Cumsum(_)
Cumsum(pasos) ==
    IF Len(pasos) = 0 THEN << >>
    ELSE LET front == Cumsum(SubSeq(pasos, 1, Len(pasos) - 1))
         IN Append(front,
                   (IF Len(front) = 0 THEN 0 ELSE front[Len(front)])
                       + pasos[Len(pasos)])

(* a slip that takes pos[0], the position after the first step *)
First(pos) == IF Len(pos) = 0 THEN Raised("IndexError")
              ELSE Returned(Int64(pos[1]))

(* a slip that takes an empty walk to end where it started, at 0 *)
LastOrOrigin(pos) == IF Len(pos) = 0 THEN Returned(Int64(0))
                     ELSE Returned(Int64(pos[Len(pos)]))

(* pos[-1] *)
Last(pos) == IF Len(pos) = 0 THEN Raised("IndexError")
             ELSE Returned(Int64(pos[Len(pos)]))

(* marcha(n_pasos) when the generator draws pasos; a negative size is *)
(* refused by the generator before anything is drawn                   *)
marcha(n_pasos, pasos) ==
    IF n_pasos < 0 THEN Raised("ValueError")
    ELSE Last(Cumsum(pasos))

(* a slip that seeds the generator with a constant: one stream of draws *)
DrawsSeeded(n) == IF n < 0 THEN {<< >>} ELSE { [i \in 1..n |-> step_length] }

(* the draws of a fresh default_rng() for a call marcha(n) *)
Draws(n) == IF n < 0 THEN {<< >>} ELSE Choices(n)

----------------------------------------------------------------------------
(* Reading input: str.split(",") and int() *)

(* A character is a one-character string; a character outside printable  *)
(* ASCII that no escape of a string names is written by its code point,   *)
(* "U+0663".                                                              *)

(* the characters int() strips from both ends: those of str.isspace(),    *)
(* but for the separators U+001C..U+001F                                  *)
SpaceChars ==
    {
      "\t", "\n", "U+000B", "\f", "\r", " ", "U+0085", "U+00A0", "U+1680",
      "U+2000", "U+2001", "U+2002", "U+2003", "U+2004", "U+2005", "U+2006",
      "U+2007", "U+2008", "U+2009", "U+200A", "U+2028", "U+2029", "U+202F",
      "U+205F", "U+3000"
    }

(* the decimal digits int() reads (Unicode category Nd), one row of the   *)
(* digits 0..9 for each script                                            *)
DigitRows ==
    <<
      <<"0", "1", "2", "3", "4", "5", "6", "7", "8", "9">>,
      <<"U+0660", "U+0661", "U+0662", "U+0663", "U+0664", "U+0665", "U+0666",
        "U+0667", "U+0668", "U+0669">>,
      <<"U+06F0", "U+06F1", "U+06F2", "U+06F3", "U+06F4", "U+06F5", "U+06F6",
        "U+06F7", "U+06F8", "U+06F9">>,
      <<"U+07C0", "U+07C1", "U+07C2", "U+07C3", "U+07C4", "U+07C5", "U+07C6",
        "U+07C7", "U+07C8", "U+07C9">>,
      <<"U+0966", "U+0967", "U+0968", "U+0969", "U+096A", "U+096B", "U+096C",
        "U+096D", "U+096E", "U+096F">>,
      <<"U+09E6", "U+09E7", "U+09E8", "U+09E9", "U+09EA", "U+09EB", "U+09EC",
        "U+09ED", "U+09EE", "U+09EF">>,
      <<"U+0A66", "U+0A67", "U+0A68", "U+0A69", "U+0A6A", "U+0A6B", "U+0A6C",
        "U+0A6D", "U+0A6E", "U+0A6F">>,
      <<"U+0AE6", "U+0AE7", "U+0AE8", "U+0AE9", "U+0AEA", "U+0AEB", "U+0AEC",
        "U+0AED", "U+0AEE", "U+0AEF">>,
      <<"U+0B66", "U+0B67", "U+0B68", "U+0B69", "U+0B6A", "U+0B6B", "U+0B6C",
        "U+0B6D", "U+0B6E", "U+0B6F">>,
      <<"U+0BE6", "U+0BE7", "U+0BE8", "U+0BE9", "U+0BEA", "U+0BEB", "U+0BEC",
        "U+0BED", "U+0BEE", "U+0BEF">>,
      <<"U+0C66", "U+0C67", "U+0C68", "U+0C69", "U+0C6A", "U+0C6B", "U+0C6C",
        "U+0C6D", "U+0C6E", "U+0C6F">>,
      <<"U+0CE6", "U+0CE7", "U+0CE8", "U+0CE9", "U+0CEA", "U+0CEB", "U+0CEC",
        "U+0CED", "U+0CEE", "U+0CEF">>,
      <<"U+0D66", "U+0D67", "U+0D68", "U+0D69", "U+0D6A", "U+0D6B", "U+0D6C",
        "U+0D6D", "U+0D6E", "U+0D6F">>,
      <<"U+0DE6", "U+0DE7", "U+0DE8", "U+0DE9", "U+0DEA", "U+0DEB", "U+0DEC",
        "U+0DED", "U+0DEE", "U+0DEF">>,
      <<"U+0E50", "U+0E51", "U+0E52", "U+0E53", "U+0E54", "U+0E55", "U+0E56",
        "U+0E57", "U+0E58", "U+0E59">>,
      <<"U+0ED0", "U+0ED1", "U+0ED2", "U+0ED3", "U+0ED4", "U+0ED5", "U+0ED6",
        "U+0ED7", "U+0ED8", "U+0ED9">>,
      <<"U+0F20", "U+0F21", "U+0F22", "U+0F23", "U+0F24", "U+0F25", "U+0F26",
        "U+0F27", "U+0F28", "U+0F29">>,
      <<"U+1040", "U+1041", "U+1042", "U+1043", "U+1044", "U+1045", "U+1046",
        "U+1047", "U+1048", "U+1049">>,
      <<"U+1090", "U+1091", "U+1092", "U+1093", "U+1094", "U+1095", "U+1096",
        "U+1097", "U+1098", "U+1099">>,
      <<"U+17E0", "U+17E1", "U+17E2", "U+17E3", "U+17E4", "U+17E5", "U+17E6",
        "U+17E7", "U+17E8", "U+17E9">>,
      <<"U+1810", "U+1811", "U+1812", "U+1813", "U+1814", "U+1815", "U+1816",
        "U+1817", "U+1818", "U+1819">>,
      <<"U+1946", "U+1947", "U+1948", "U+1949", "U+194A", "U+194B", "U+194C",
        "U+194D", "U+194E", "U+194F">>,
      <<"U+19D0", "U+19D1", "U+19D2", "U+19D3", "U+19D4", "U+19D5", "U+19D6",
        "U+19D7", "U+19D8", "U+19D9">>,
      <<"U+1A80", "U+1A81", "U+1A82", "U+1A83", "U+1A84", "U+1A85", "U+1A86",
        "U+1A87", "U+1A88", "U+1A89">>,
      <<"U+1A90", "U+1A91", "U+1A92", "U+1A93", "U+1A94", "U+1A95", "U+1A96",
        "U+1A97", "U+1A98", "U+1A99">>,
      <<"U+1B50", "U+1B51", "U+1B52", "U+1B53", "U+1B54", "U+1B55", "U+1B56",
        "U+1B57", "U+1B58", "U+1B59">>,
      <<"U+1BB0", "U+1BB1", "U+1BB2", "U+1BB3", "U+1BB4", "U+1BB5", "U+1BB6",
        "U+1BB7", "U+1BB8", "U+1BB9">>,
      <<"U+1C40", "U+1C41", "U+1C42", "U+1C43", "U+1C44", "U+1C45", "U+1C46",
        "U+1C47", "U+1C48", "U+1C49">>,
      <<"U+1C50", "U+1C51", "U+1C52", "U+1C53", "U+1C54", "U+1C55", "U+1C56",
        "U+1C57", "U+1C58", "U+1C59">>,
      <<"U+A620", "U+A621", "U+A622", "U+A623", "U+A624", "U+A625", "U+A626",
        "U+A627", "U+A628", "U+A629">>,
      <<"U+A8D0", "U+A8D1", "U+A8D2", "U+A8D3", "U+A8D4", "U+A8D5", "U+A8D6",
        "U+A8D7", "U+A8D8", "U+A8D9">>,
      <<"U+A900", "U+A901", "U+A902", "U+A903", "U+A904", "U+A905", "U+A906",
        "U+A907", "U+A908", "U+A909">>,
      <<"U+A9D0", "U+A9D1", "U+A9D2", "U+A9D3", "U+A9D4", "U+A9D5", "U+A9D6",
        "U+A9D7", "U+A9D8", "U+A9D9">>,
      <<"U+A9F0", "U+A9F1", "U+A9F2", "U+A9F3", "U+A9F4", "U+A9F5", "U+A9F6",
        "U+A9F7", "U+A9F8", "U+A9F9">>,
      <<"U+AA50", "U+AA51", "U+AA52", "U+AA53", "U+AA54", "U+AA55", "U+AA56",
        "U+AA57", "U+AA58", "U+AA59">>,
      <<"U+ABF0", "U+ABF1", "U+ABF2", "U+ABF3", "U+ABF4", "U+ABF5", "U+ABF6",
        "U+ABF7", "U+ABF8", "U+ABF9">>,
      <<"U+FF10", "U+FF11", "U+FF12", "U+FF13", "U+FF14", "U+FF15", "U+FF16",
        "U+FF17", "U+FF18", "U+FF19">>,
      <<"U+104A0", "U+104A1", "U+104A2", "U+104A3", "U+104A4", "U+104A5",
        "U+104A6", "U+104A7", "U+104A8", "U+104A9">>,
      <<"U+10D30", "U+10D31", "U+10D32", "U+10D33", "U+10D34", "U+10D35",
        "U+10D36", "U+10D37", "U+10D38", "U+10D39">>,
      <<"U+11066", "U+11067", "U+11068", "U+11069", "U+1106A", "U+1106B",
        "U+1106C", "U+1106D", "U+1106E", "U+1106F">>,
      <<"U+110F0", "U+110F1", "U+110F2", "U+110F3", "U+110F4", "U+110F5",
        "U+110F6", "U+110F7", "U+110F8", "U+110F9">>,
      <<"U+11136", "U+11137", "U+11138", "U+11139", "U+1113A", "U+1113B",
        "U+1113C", "U+1113D", "U+1113E", "U+1113F">>,
      <<"U+111D0", "U+111D1", "U+111D2", "U+111D3", "U+111D4", "U+111D5",
        "U+111D6", "U+111D7", "U+111D8", "U+111D9">>,
      <<"U+112F0", "U+112F1", "U+112F2", "U+112F3", "U+112F4", "U+112F5",
        "U+112F6", "U+112F7", "U+112F8", "U+112F9">>,
      <<"U+11450", "U+11451", "U+11452", "U+11453", "U+11454", "U+11455",
        "U+11456", "U+11457", "U+11458", "U+11459">>,
      <<"U+114D0", "U+114D1", "U+114D2", "U+114D3", "U+114D4", "U+114D5",
        "U+114D6", "U+114D7", "U+114D8", "U+114D9">>,
      <<"U+11650", "U+11651", "U+11652", "U+11653", "U+11654", "U+11655",
        "U+11656", "U+11657", "U+11658", "U+11659">>,
      <<"U+116C0", "U+116C1", "U+116C2", "U+116C3", "U+116C4", "U+116C5",
        "U+116C6", "U+116C7", "U+116C8", "U+116C9">>,
      <<"U+11730", "U+11731", "U+11732", "U+11733", "U+11734", "U+11735",
        "U+11736", "U+11737", "U+11738", "U+11739">>,
      <<"U+118E0", "U+118E1", "U+118E2", "U+118E3", "U+118E4", "U+118E5",
        "U+118E6", "U+118E7", "U+118E8", "U+118E9">>,
      <<"U+11950", "U+11951", "U+11952", "U+11953", "U+11954", "U+11955",
        "U+11956", "U+11957", "U+11958", "U+11959">>,
      <<"U+11C50", "U+11C51", "U+11C52", "U+11C53", "U+11C54", "U+11C55",
        "U+11C56", "U+11C57", "U+11C58", "U+11C59">>,
      <<"U+11D50", "U+11D51", "U+11D52", "U+11D53", "U+11D54", "U+11D55",
        "U+11D56", "U+11D57", "U+11D58", "U+11D59">>,
      <<"U+11DA0", "U+11DA1", "U+11DA2", "U+11DA3", "U+11DA4", "U+11DA5",
        "U+11DA6", "U+11DA7", "U+11DA8", "U+11DA9">>,
      <<"U+16A60", "U+16A61", "U+16A62", "U+16A63", "U+16A64", "U+16A65",
        "U+16A66", "U+16A67", "U+16A68", "U+16A69">>,
      <<"U+16AC0", "U+16AC1", "U+16AC2", "U+16AC3", "U+16AC4", "U+16AC5",
        "U+16AC6", "U+16AC7", "U+16AC8", "U+16AC9">>,
      <<"U+16B50", "U+16B51", "U+16B52", "U+16B53", "U+16B54", "U+16B55",
        "U+16B56", "U+16B57", "U+16B58", "U+16B59">>,
      <<"U+1D7CE", "U+1D7CF", "U+1D7D0", "U+1D7D1", "U+1D7D2", "U+1D7D3",
        "U+1D7D4", "U+1D7D5", "U+1D7D6", "U+1D7D7">>,
      <<"U+1D7D8", "U+1D7D9", "U+1D7DA", "U+1D7DB", "U+1D7DC", "U+1D7DD",
        "U+1D7DE", "U+1D7DF", "U+1D7E0", "U+1D7E1">>,
      <<"U+1D7E2", "U+1D7E3", "U+1D7E4", "U+1D7E5", "U+1D7E6", "U+1D7E7",
        "U+1D7E8", "U+1D7E9", "U+1D7EA", "U+1D7EB">>,
      <<"U+1D7EC", "U+1D7ED", "U+1D7EE", "U+1D7EF", "U+1D7F0", "U+1D7F1",
        "U+1D7F2", "U+1D7F3", "U+1D7F4", "U+1D7F5">>,
      <<"U+1D7F6", "U+1D7F7", "U+1D7F8", "U+1D7F9", "U+1D7FA", "U+1D7FB",
        "U+1D7FC", "U+1D7FD", "U+1D7FE", "U+1D7FF">>,
      <<"U+1E140", "U+1E141", "U+1E142", "U+1E143", "U+1E144", "U+1E145",
        "U+1E146", "U+1E147", "U+1E148", "U+1E149">>,
      <<"U+1E2F0", "U+1E2F1", "U+1E2F2", "U+1E2F3", "U+1E2F4", "U+1E2F5",
        "U+1E2F6", "U+1E2F7", "U+1E2F8", "U+1E2F9">>,
      <<"U+1E950", "U+1E951", "U+1E952", "U+1E953", "U+1E954", "U+1E955",
        "U+1E956", "U+1E957", "U+1E958", "U+1E959">>,
      <<"U+1FBF0", "U+1FBF1", "U+1FBF2", "U+1FBF3", "U+1FBF4", "U+1FBF5",
        "U+1FBF6", "U+1FBF7", "U+1FBF8", "U+1FBF9">>
    >>

DigitChars ==
    UNION { { DigitRows[r][j] : j \in 1..10 } : r \in 1..Len(DigitRows) }

DigitVal(c) ==
    LET r == CHOOSE k \in 1..Len(DigitRows) :
                 \E j \in 1..10 : DigitRows[k][j] = c
    IN (CHOOSE j \in 1..10 : DigitRows[r][j] = c) - 1

IsSpace(c) == c \in SpaceChars

RECURSIVE LStrip(_)
LStrip(s) == IF Len(s) > 0 /\ IsSpace(Head(s)) THEN LStrip(Tail(s)) ELSE s

RECURSIVE RStrip(_)
RStrip(s) == IF Len(s) > 0 /\ IsSpace(s[Len(s)])
             THEN RStrip(SubSeq(s, 1, Len(s) - 1)) ELSE s

Strip(s) == RStrip(LStrip(s))

(* the digits of an integer literal: digits, single underscores between them *)
IsDigits(b) ==
    /\ Len(b) > 0
    /\ \A i \in 1..Len(b) : b[i] = "_" \/ b[i] \in DigitChars
    /\ b[1] # "_"
    /\ b[Len(b)] # "_"
    /\ \A i \in 1..(Len(b) - 1) : ~(b[i] = "_" /\ b[i + 1] = "_")

(* the most digits int() converts (sys.get_int_max_str_digits()) *)
MaxStrDigits == 4300

(* the digits int() counts against that limit: underscores are not *)
DigitCount(b) == Len(SelectSeq(b, LAMBDA c : c # "_"))

RECURSIVE DigitsValue(_)
DigitsValue(b) ==
    IF Len(b) = 0 THEN 0
    ELSE LET front == DigitsValue(SubSeq(b, 1, Len(b) - 1))
             c == b[Len(b)]
         IN IF c = "_" THEN front ELSE 10 * front + DigitVal(c)

(* a slip that takes every text that is no integer for 0 *)
ParseIntOrZero(s) ==
    LET t == Strip(s)
        signed == Len(t) > 0 /\ t[1] \in {"+", "-"}
        body == IF signed THEN Tail(t) ELSE t
    IN IF DigitCount(body) > MaxStrDigits \/ ~IsDigits(body)
       THEN Returned(0)
       ELSE Returned(IF signed /\ t[1] = "-" THEN -DigitsValue(body)
                     ELSE DigitsValue(body))

(* int(s) for a str s: surrounding whitespace, an optional sign, digits, *)
(* no more of them than the limit                                       *)
ParseInt(s) ==
    LET t == Strip(s)
        signed == Len(t) > 0 /\ t[1] \in {"+", "-"}
        body == IF signed THEN Tail(t) ELSE t
    IN IF DigitCount(body) > MaxStrDigits \/ ~IsDigits(body)
       THEN Raised("ValueError")
       ELSE Returned(IF signed /\ t[1] = "-" THEN -DigitsValue(body)
                     ELSE DigitsValue(body))

RECURSIVE Split(_, _)
(* s.split(sep): the pieces between the separators, at least one piece *)
Split(s, sep) ==
    IF \A i \in 1..Len(s) : s[i] # sep THEN << s >>
    ELSE LET k == CHOOSE i \in 1..Len(s) :
                      s[i] = sep /\ \A j \in 1..(i - 1) : s[j] # sep
         IN << SubSeq(s, 1, k - 1) >> \o Split(SubSeq(s, k + 1, Len(s)), sep)

RECURSIVE ParseAll(_)
(* [int(x) for x in pieces]: the first piece that is no integer raises *)
ParseAll(pieces) ==
    IF Len(pieces) = 0 THEN Returned(<< >>)
    ELSE LET h == ParseInt(Head(pieces))
         IN IF h.exc # "none" THEN h
            ELSE LET t == ParseAll(Tail(pieces))
                 IN IF t.exc # "none" THEN t
                    ELSE Returned(<< h.val >> \o t.val)

(* the decimal text of an integer, as str(n) writes it *)
RECURSIVE NatStr(_)
NatStr(n) ==
    LET d == DigitRows[1][(n % 10) + 1]
    IN IF n < 10 THEN << d >> ELSE Append(NatStr(n \div 10), d)

IntStr(n) == IF n < 0 THEN << "-" >> \o NatStr(-n) ELSE NatStr(n)

(* the text of a list of integers separated by commas *)
RECURSIVE JoinInts(_)
JoinInts(l) ==
    IF Len(l) = 0 THEN << >>
    ELSE IF Len(l) = 1 THEN IntStr(l[1])
    ELSE IntStr(l[1]) \o << "," >> \o JoinInts(Tail(l))

----------------------------------------------------------------------------
(* momentos_vs_N: the least-squares line *)

(* the sides on which the chain of rounded operations of the solve can *)
(* leave a coefficient: which one it is depends on the LAPACK build     *)
Rounding == { -1, 0, 1 }

(* x / 2, exact in float64: the rounding error of x is halved with it *)
Half(x) == Approx(RDiv(Nominal(x), Float(2)), x.rnd)

HasNaN(s) == \E i \in 1..Len(s) : IsNaN(s[i])

Dot(a, b) == RSum([i \in 1..Len(a) |-> RMul(a[i], b[i])])

(* a slip that takes the coefficients lowest degree first *)
polyfitLowestFirst(x, y) ==
    LET n == Float(Len(x))
        Sx == RSum(x)
        Sy == RSum(y)
        Sxx == Dot(x, x)
        Sxy == Dot(x, y)
        det == RSub(RMul(n, Sxx), RMul(Sx, Sx))
        a == RDiv(RSub(RMul(n, Sxy), RMul(Sx, Sy)), det)
        b == RDiv(RSub(Sy, RMul(a, Sx)), n)
    IN IF Len(x) = 0 THEN { Raised("TypeError") }
       ELSE IF HasNaN(y) \/ Sxx = Float(0)
            THEN { Raised("LinAlgError"),
                   Returned(<< Approx(NaN, {0}), Approx(NaN, {0}) >>) }
       ELSE IF det # Float(0)
            THEN { Returned(<< Approx(b, Rounding), Approx(a, Rounding) >>) }
       ELSE { Returned(<< Approx(RDiv(RDiv(Sy, n), Float(deg + 1)), Rounding),
                          Approx(RDiv(RDiv(Sy, n),
                                      RMul(Float(deg + 1), x[1])),
                                 Rounding) >>) }

(* np.polyfit(x, y, deg) for deg = 1: the outcomes it can have.            *)
(* lstsq works on the columns [x, 1], each divided by its norm, by an SVD  *)
(* in float64: its coefficients are the ones below, computed from the      *)
(* rationals the y stand for, up to rounding.  With                        *)
(* two different x it gives the least-squares line; with every x the same  *)
(* value c the columns are parallel and it gives the solution of least     *)
(* norm, slope = mean(y)/(2c), intercept = mean(y)/2.  A NaN in the system *)
(* (in y, or from a column of norm 0) either makes LAPACK report no        *)
(* convergence or comes out as NaN coefficients, depending on the build.   *)
polyfit(x, y) ==
    LET n == Float(Len(x))
        Sx == RSum(x)
        Sy == RSum(y)
        Sxx == Dot(x, x)
        Sxy == Dot(x, y)
        det == RSub(RMul(n, Sxx), RMul(Sx, Sx))
        a == RDiv(RSub(RMul(n, Sxy), RMul(Sx, Sy)), det)
        b == RDiv(RSub(Sy, RMul(a, Sx)), n)
    IN IF Len(x) = 0 THEN { Raised("TypeError") }
       ELSE IF HasNaN(y) \/ Sxx = Float(0)
            THEN { Raised("LinAlgError"),
                   Returned(<< Approx(NaN, {0}), Approx(NaN, {0}) >>) }
       ELSE IF det # Float(0)
            THEN { Returned(<< Approx(a, Rounding), Approx(b, Rounding) >>) }
       ELSE { Returned(<< Approx(RDiv(RDiv(Sy, n),
                                      RMul(Float(deg + 1), x[1])),
                                 Rounding),
                          Approx(RDiv(RDiv(Sy, n), Float(deg + 1)),
                                 Rounding) >>) }

----------------------------------------------------------------------------
(* The input lines tried at each prompt *)

(* one digit more than int() converts *)
LongDigits == [i \in 1..(MaxStrDigits + 1) |-> "1"]

MenuInputs == { <<"1">>, <<"2">>, <<"3">>, <<"0">>, <<"4">>, << >>,
                <<" ", "1">>, <<"U+0661">>, <<"a">> }

StepInputs == { <<"1">>, <<"0">>, <<"-", "1">>, <<"\t", "2", " ">>,
                <<"a">>, <<"1", ".", "5">>, <<"U+001C", "1">>, LongDigits,
                << >> }

RunInputs == { <<"U+0661">>, <<"0">>, <<"-", "1">>, <<"x">>, << >> }

ListInputs == { <<"1">>, <<"1", ",", "\t", "2">>, <<"1", ",", "0">>,
                << >>, <<"1", ",">>, <<"1", ",", "a">> }

----------------------------------------------------------------------------
(* The program *)

(* an exception nobody catches ends main() *)
Crash(e) == pc' = "crash" /\ err' = e

(* np.empty(runs): an array whose entries are whatever the memory held *)
Garbage == [num |-> 0, den |-> -1]
Empty(r) == [j \in 1..r |-> Garbage]

(* a slip that starts the loop at 1, as range(1, runs) would *)
PosFinalesFrameFromOne(n, r) ==
    [n_pasos |-> n, runs |-> r, i |-> IF r > 0 THEN 1 ELSE 0,
     finales |-> Empty(r), calls |-> << >>]

(* the locals of pos_finales(n_pasos, runs) after finales = np.empty(runs); *)
(* calls is the record of the calls of marcha it has made                   *)
PosFinalesFrame(n, r) ==
    [n_pasos |-> n, runs |-> r, i |-> 0, finales |-> Empty(r), calls |-> << >>]

(* a slip that compares opcion.strip() with the options *)
MenuStripped ==
    /\ pc = "menu"
    /\ prompts < MaxPrompts
    /\ \E l \in MenuInputs :
        /\ opcion' = l
        /\ line' = l
        /\ prompts' = prompts + 1
        /\ asked' = 0
        /\ walked' = 0
        /\ IF Strip(l) = <<"1">> THEN pc' = "opt1_N" /\ out' = << >>
           ELSE IF Strip(l) = <<"2">> THEN pc' = "opt2_N" /\ out' = << >>
           ELSE IF Strip(l) = <<"3">> THEN pc' = "opt3_lista" /\ out' = << >>
           ELSE IF Strip(l) = <<"0">> THEN pc' = "exit" /\ out' = << >>
           ELSE pc' = "menu" /\ out' = << "Opcion no valida." >>
    /\ UNCHANGED << err, N, runs, pos_final, finales, lista, N_vals, medios,
                    medios_x2, slope, D, u, v, pf, mo >>

(* menu() and the dispatch on opcion in main() *)
Menu ==
    /\ pc = "menu"
    /\ prompts < MaxPrompts
    /\ \E l \in MenuInputs :
        /\ opcion' = l
        /\ line' = l
        /\ prompts' = prompts + 1
        /\ asked' = 0
        /\ walked' = 0
        /\ IF l = <<"1">> THEN pc' = "opt1_N" /\ out' = << >>
           ELSE IF l = <<"2">> THEN pc' = "opt2_N" /\ out' = << >>
           ELSE IF l = <<"3">> THEN pc' = "opt3_lista" /\ out' = << >>
           ELSE IF l = <<"0">> THEN pc' = "exit" /\ out' = << >>
           ELSE pc' = "menu" /\ out' = << "Opcion no valida." >>
    /\ UNCHANGED << err, N, runs, pos_final, finales, lista, N_vals, medios,
                    medios_x2, slope, D, u, v, pf, mo >>

(* option 1: N = int(input(...)) *)
Opt1ReadN ==
    /\ pc = "opt1_N"
    /\ \E l \in StepInputs :
        LET r == ParseInt(l)
        IN /\ line' = l
           /\ IF r.exc # "none" THEN Crash(r.exc) /\ N' = N
              ELSE N' = r.val /\ pc' = "opt1_marcha" /\ err' = err
    /\ asked' = asked + 1
    /\ UNCHANGED << opcion, runs, pos_final, finales, lista, N_vals, medios,
                    medios_x2, slope, D, u, v, pf, mo, prompts, out, walked >>

(* option 1: pos_final = marcha(N); print *)
Opt1Marcha ==
    /\ pc = "opt1_marcha"
    /\ \E pasos \in Draws(N) :
        LET r == marcha(N, pasos)
        IN IF r.exc # "none"
           THEN Crash(r.exc) /\ UNCHANGED << pos_final, out >>
           ELSE /\ pos_final' = r.val
                /\ out' = Append(out, "Posicion final")
                /\ pc' = "menu"
                /\ err' = err
    /\ walked' = walked + 1
    /\ UNCHANGED << opcion, N, runs, finales, lista, N_vals, medios, medios_x2,
                    slope, D, u, v, pf, mo, line, prompts, asked >>

(* option 2: N = int(input(...)) *)
Opt2ReadN ==
    /\ pc = "opt2_N"
    /\ \E l \in StepInputs :
        LET r == ParseInt(l)
        IN /\ line' = l
           /\ IF r.exc # "none" THEN Crash(r.exc) /\ N' = N
              ELSE N' = r.val /\ pc' = "opt2_runs" /\ err' = err
    /\ asked' = asked + 1
    /\ UNCHANGED << opcion, runs, pos_final, finales, lista, N_vals, medios,
                    medios_x2, slope, D, u, v, pf, mo, prompts, out, walked >>

(* option 2: runs = int(input(...)) *)
Opt2ReadRuns ==
    /\ pc = "opt2_runs"
    /\ \E l \in RunInputs :
        LET r == ParseInt(l)
        IN /\ line' = l
           /\ IF r.exc # "none" THEN Crash(r.exc) /\ runs' = runs
              ELSE runs' = r.val /\ pc' = "opt2_pos" /\ err' = err
    /\ asked' = asked + 1
    /\ UNCHANGED << opcion, N, pos_final, finales, lista, N_vals, medios,
                    medios_x2, slope, D, u, v, pf, mo, prompts, out, walked >>

(* option 2: the call pos_finales(N, runs), up to its loop *)
Opt2PosFinales ==
    /\ pc = "opt2_pos"
    /\ IF runs < 0 THEN Crash("ValueError") /\ pf' = pf
       ELSE pf' = << PosFinalesFrame(N, runs) >> /\ pc' = "pf_loop" /\ err' = err
    /\ UNCHANGED << mainLocals, mo, line, prompts, out, asked, walked >>

(* pos_finales: one turn of the loop, x = marcha(n_pasos); finales[i] = x *)
PosFinalesIter ==
    /\ pc = "pf_loop"
    /\ pf[1].i < pf[1].runs
    /\ \E pasos \in Draws(pf[1].n_pasos) :
        LET r == marcha(pf[1].n_pasos, pasos)
        IN IF r.exc # "none" THEN Crash(r.exc) /\ pf' = pf
           ELSE /\ pf' = << [pf[1] EXCEPT
                               !.finales[pf[1].i + 1] = Float(r.val.val),
                               !.i = @ + 1,
                               !.calls = Append(@, [n |-> pf[1].n_pasos,
                                                    x |-> r.val])] >>
                /\ UNCHANGED << pc, err >>
    /\ walked' = walked + 1
    /\ UNCHANGED << mainLocals, mo, line, prompts, out, asked >>

(* pos_finales returns to option 2 of main: finales = pos_finales(N, runs) *)
PosFinalesReturnMain ==
    /\ pc = "pf_loop"
    /\ pf[1].i = pf[1].runs
    /\ Len(mo) = 0
    /\ finales' = pf[1].finales
    /\ pf' = << >>
    /\ pc' = "opt2_hist"
    /\ UNCHANGED << err, opcion, N, runs, pos_final, lista, N_vals, medios,
                    medios_x2, slope, D, u, v, mo, line, prompts, out, asked,
                    walked >>

(* option 2: histograma(finales, N) *)
Opt2Histograma ==
    /\ pc = "opt2_hist"
    /\ IF N < 0 THEN Crash("ValueError") /\ out' = out
       ELSE IF Len(finales) = 0 THEN Crash("ValueError") /\ out' = out
       ELSE IF N = 0 THEN Crash("ZeroDivisionError") /\ out' = out
       ELSE out' = Append(out, "plot_hist") /\ pc' = "menu" /\ err' = err
    /\ UNCHANGED << mainLocals, pf, mo, line, prompts, asked, walked >>

(* option 3: lista = input(...); N_vals = [int(x) for x in lista.split(",")] *)
Opt3ReadLista ==
    /\ pc = "opt3_lista"
    /\ \E l \in ListInputs :
        LET r == ParseAll(Split(l, ","))
        IN /\ lista' = l
           /\ line' = l
           /\ IF r.exc # "none" THEN Crash(r.exc) /\ N_vals' = N_vals
              ELSE N_vals' = r.val /\ pc' = "opt3_runs" /\ err' = err
    /\ asked' = asked + 1
    /\ UNCHANGED << opcion, N, runs, pos_final, finales, medios, medios_x2,
                    slope, D, u, v, pf, mo, prompts, out, walked >>

(* option 3: runs = int(input(...)) *)
Opt3ReadRuns ==
    /\ pc = "opt3_runs"
    /\ \E l \in RunInputs :
        LET r == ParseInt(l)
        IN /\ line' = l
           /\ IF r.exc # "none" THEN Crash(r.exc) /\ runs' = runs
              ELSE runs' = r.val /\ pc' = "opt3_mom" /\ err' = err
    /\ asked' = asked + 1
    /\ UNCHANGED << opcion, N, pos_final, finales, lista, N_vals, medios,
                    medios_x2, slope, D, u, v, pf, mo, prompts, out, walked >>

(* option 3: the call momentos_vs_N(N_vals, runs), up to its loop *)
Opt3Momentos ==
    /\ pc = "opt3_mom"
    /\ mo' = << [valores_N |-> N_vals, runs |-> runs, k |-> 0,
                 medios |-> << >>, medios_x2 |-> << >>, finales |-> << >>] >>
    /\ pc' = "mo_loop"
    /\ UNCHANGED << err, mainLocals, pf, line, prompts, out, asked, walked >>

(* momentos_vs_N: for N in valores_N, the call pos_finales(N, runs) *)
MomentosIter ==
    /\ pc = "mo_loop"
    /\ mo[1].k < Len(mo[1].valores_N)
    /\ IF mo[1].runs < 0 THEN Crash("ValueError") /\ pf' = pf
       ELSE /\ pf' = << PosFinalesFrame(mo[1].valores_N[mo[1].k + 1],
                                        mo[1].runs) >>
            /\ pc' = "pf_loop"
            /\ err' = err
    /\ UNCHANGED << mainLocals, mo, line, prompts, out, asked, walked >>

(* pos_finales returns to momentos_vs_N, which appends the two means *)
PosFinalesReturnMomentos ==
    /\ pc = "pf_loop"
    /\ pf[1].i = pf[1].runs
    /\ Len(mo) = 1
    /\ mo' = << [mo[1] EXCEPT
                   !.finales = pf[1].finales,
                   !.medios = Append(@, Mean(pf[1].finales)),
                   !.medios_x2 = Append(@, Mean(Squares(pf[1].finales))),
                   !.k = @ + 1] >>
    /\ pf' = << >>
    /\ pc' = "mo_loop"
    /\ UNCHANGED << err, mainLocals, line, prompts, out, asked, walked >>

(* momentos_vs_N after its loop: slope, intercept = np.polyfit(N_arr, m2, 1) *)
(* and D = slope/2                                                          *)
MomentosFit ==
    /\ pc = "mo_loop"
    /\ mo[1].k = Len(mo[1].valores_N)
    /\ \E r \in polyfit([j \in 1..Len(mo[1].valores_N) |->
                            Float(mo[1].valores_N[j])], mo[1].medios_x2) :
        IF r.exc # "none" THEN Crash(r.exc) /\ mo' = mo
        ELSE /\ mo' = << [valores_N |-> mo[1].valores_N, runs |-> mo[1].runs,
                          k |-> mo[1].k, medios |-> mo[1].medios,
                          medios_x2 |-> mo[1].medios_x2,
                          finales |-> mo[1].finales,
                          slope |-> r.val[1], intercept |-> r.val[2],
                          D |-> Half(r.val[1])] >>
             /\ pc' = "mo_plot"
             /\ err' = err
    /\ UNCHANGED << mainLocals, pf, line, prompts, out, asked, walked >>

(* momentos_vs_N shows the plot and returns m1, m2, slope, D into medios, *)
(* medios_x2, slope, D of main                                            *)
MomentosReturn ==
    /\ pc = "mo_plot"
    /\ out' = Append(out, "plot_fit")
    /\ medios' = mo[1].medios
    /\ medios_x2' = mo[1].medios_x2
    /\ slope' = mo[1].slope
    /\ D' = mo[1].D
    /\ mo' = << >>
    /\ pc' = "opt3_print"
    /\ UNCHANGED << err, opcion, N, runs, pos_final, finales, lista, N_vals, u,
                    v, pf, line, prompts, asked, walked >>

(* option 3: the results table, the slope and D are printed *)
Opt3Print ==
    /\ pc = "opt3_print"
    /\ LET rows == Len(N_vals)
       IN /\ N' = IF rows = 0 THEN N ELSE N_vals[rows]
          /\ u' = IF rows = 0 THEN u ELSE medios[rows]
          /\ v' = IF rows = 0 THEN v ELSE medios_x2[rows]
    /\ out' = out \o << "Resultados", "Pendiente", "Constante de difusion" >>
    /\ pc' = "menu"
    /\ UNCHANGED << err, opcion, runs, pos_final, finales, lista, N_vals,
                    medios, medios_x2, slope, D, pf, mo, line, prompts, asked,
                    walked >>

----------------------------------------------------------------------------
(* Specifications *)

Fresh ==
    /\ err = NoErr
    /\ pos_final = Unbound /\ finales = Unbound
    /\ medios = Unbound /\ medios_x2 = Unbound /\ slope = Unbound
    /\ D = Unbound /\ u = Unbound /\ v = Unbound
    /\ pf = << >> /\ mo = << >>
    /\ out = << >> /\ walked = 0

(* the program as started: main() about to show the menu *)
Init ==
    /\ Fresh
    /\ pc = "menu"
    /\ opcion = Unbound /\ N = Unbound /\ runs = Unbound /\ line = << >>
    /\ lista = Unbound /\ N_vals = Unbound
    /\ prompts = 0 /\ asked = 0

Next ==
    \/ Menu
    \/ Opt1ReadN
    \/ Opt1Marcha
    \/ Opt2ReadN
    \/ Opt2ReadRuns
    \/ Opt2PosFinales
    \/ PosFinalesIter
    \/ PosFinalesReturnMain
    \/ Opt2Histograma
    \/ Opt3ReadLista
    \/ Opt3ReadRuns
    \/ Opt3Momentos
    \/ MomentosIter
    \/ PosFinalesReturnMomentos
    \/ MomentosFit
    \/ MomentosReturn
    \/ Opt3Print

Spec == Init /\ [][Next]_vars

(* a single walk: option 1 has read a step count and calls marcha *)
InitMarcha ==
    /\ Fresh
    /\ pc = "opt1_marcha"
    /\ opcion = <<"1">>
    /\ N \in -1..MaxSteps
    /\ line = IntStr(N)
    /\ runs = Unbound /\ lista = Unbound /\ N_vals = Unbound
    /\ prompts = 1 /\ asked = 1

NextMarcha == Opt1Marcha

SpecMarcha == InitMarcha /\ [][NextMarcha]_vars

(* the moments: option 3 has read a list of step counts and a run count *)
(* and calls momentos_vs_N, followed until option 3 has printed its      *)
(* results and the menu is next                                          *)
RECURSIVE Total(_)
Total(l) == IF Len(l) = 0 THEN 0 ELSE Head(l) + Total(Tail(l))

StepLists ==
    { l \in UNION { [1..n -> 0..MaxN] : n \in 1..MaxList } :
        Total(l) <= MaxTotal }

InitMom ==
    /\ Fresh
    /\ pc = "opt3_mom"
    /\ opcion = <<"3">>
    /\ N = Unbound
    /\ N_vals \in StepLists
    /\ lista = JoinInts(N_vals)
    /\ runs \in 0..MaxRuns
    /\ line = IntStr(runs)
    /\ prompts = 1 /\ asked = 2

NextMom ==
    \/ Opt3Momentos
    \/ MomentosIter
    \/ PosFinalesIter
    \/ PosFinalesReturnMomentos
    \/ MomentosFit
    \/ MomentosReturn
    \/ Opt3Print

SpecMom == InitMom /\ [][NextMom]_vars

----------------------------------------------------------------------------
(* Properties of marcha (SpecMarcha) *)

(* the final positions a walk of n steps can have *)
Finals(n) == { k \in -n..n : (k - n) % 2 = 0 }

(* the option read at the last menu prompt is o *)
Chose(o) == prompts > 0 /\ opcion = o

(* option 1 has just printed the result of marcha(N) *)
Walked1 == pc = "menu" /\ Chose(<<"1">>) /\ walked = 1

(* C1: for N >= 1 marcha(N) returns one integer, the last cumulative sum, *)
(* which lies in [-N, N] and has the parity of N.                         *)
C1_FinalInRangeWithParity ==
    /\ (pc = "crash" => N < 1)
    /\ (Walked1 /\ N >= 1) =>
          /\ pos_final.type = "int64"
          /\ pos_final.val \in -N..N
          /\ (pos_final.val - N) % 2 = 0

C1_Witness == Walked1 /\ N = 6 /\ pos_final = Int64(-4)

(* C8: marcha(N) returns the vector of positions x[0..N], of length N+1, *)
(* with x_0 = 0 and consecutive elements one step apart.                 *)
C8_ReturnsPositionVector ==
    (Walked1 /\ N >= 1) =>
          /\ pos_final.type = "ndarray"
          /\ Len(pos_final.val) = N + 1
          /\ pos_final.val[1] = 0
          /\ \A i \in 1..N :
                Abs(pos_final.val[i + 1] - pos_final.val[i]) = step_length

(* the number of step sequences of length n that end at position k *)
Count(n, k) ==
    Cardinality({ p \in Choices(n) : marcha(n, p) = Returned(Int64(k)) })

RECURSIVE Moment(_, _, _)
(* the sum of k^e over the final positions k <= top of all sequences *)
Moment(n, e, top) ==
    IF top < -n THEN 0
    ELSE Count(n, top) * (IF e = 1 THEN top ELSE top * top)
            + Moment(n, e, top - 1)

(* the mean of the final position (e = 1) or of its square (e = 2) over *)
(* all step sequences of length n, each as likely as any other          *)
ExactMean(n, e) == Rat(Moment(n, e, n), Cardinality(Choices(n)))

(* C6: over all 2^N step sequences of length N >= 1 the mean final *)
(* position is 0 and the mean squared final position is N.         *)
C6_ExactMoments ==
    (pc = "opt1_marcha" /\ N >= 1) =>
          /\ ExactMean(N, 1) = Float(0)
          /\ ExactMean(N, 2) = Float(N)

C6_Witness == Walked1 /\ N = 4 /\ pos_final = Int64(4)

----------------------------------------------------------------------------
(* Properties of pos_finales and momentos_vs_N (SpecMom) *)

(* while pos_finales runs: one call of marcha per turn, each with the same *)
(* n_pasos, and entry j of finales is the result of call j                 *)
PosFinalesSoFar(f) ==
    /\ Len(f.finales) = f.runs
    /\ Len(f.calls) = f.i
    /\ f.i <= f.runs
    /\ \A j \in 1..f.i :
          /\ f.calls[j].n = f.n_pasos
          /\ f.finales[j] = Float(f.calls[j].x.val)
          /\ f.calls[j].x.val \in Finals(f.n_pasos)
          /\ (f.n_pasos = 1 => f.finales[j] \in { Float(-1), Float(1) })

(* the step on which pos_finales returns to momentos_vs_N *)
PosFinalesReturns == pc = "pf_loop" /\ pc' = "mo_loop"

(* C2 as claimed: pos_finales(N, R) calls marcha R times with N and returns *)
(* the R results in order, each in [-N, N] with the parity of N, and for    *)
(* N = 1 the mean of squares of what it returns is 1, for every R >= 0.     *)
C2_MeanSquareOneForAnyRuns ==
    [][ /\ (pc = "pf_loop" /\ pf[1].n_pasos >= 1) => PosFinalesSoFar(pf[1])
        /\ (PosFinalesReturns /\ pf[1].n_pasos >= 1) =>
              /\ pf[1].i = pf[1].runs
              /\ mo'[1].finales = pf[1].finales
              /\ (pf[1].n_pasos = 1 =>
                    mo'[1].medios_x2[mo'[1].k] = Approx(Float(1), {0})) ]_vars

(* C2 as amended: the same, the mean of squares being 1 when R >= 1. *)
C2_MeanSquareOneForRuns ==
    [][ /\ (pc = "pf_loop" /\ pf[1].n_pasos >= 1) => PosFinalesSoFar(pf[1])
        /\ (PosFinalesReturns /\ pf[1].n_pasos >= 1) =>
              /\ pf[1].i = pf[1].runs
              /\ mo'[1].finales = pf[1].finales
              /\ ((pf[1].n_pasos = 1 /\ pf[1].runs >= 1) =>
                    mo'[1].medios_x2[mo'[1].k] = Approx(Float(1), {0}))
              /\ ((pf[1].n_pasos = 1 /\ pf[1].runs = 0) =>
                    IsNaN(mo'[1].medios_x2[mo'[1].k])) ]_vars

C2_Witness ==
    /\ pc = "mo_loop"
    /\ mo[1].valores_N = << 1, 2 >>
    /\ mo[1].runs = 2
    /\ mo[1].k = 1
    /\ mo[1].finales = << Float(1), Float(-1) >>
    /\ mo[1].medios_x2 = << Approx(Float(1), {0}) >>

(* the means of squares are the values they converge to: N for each N *)
Converged(m) ==
    \A j \in 1..Len(m.valores_N) :
        m.medios_x2[j] = Approx(Float(m.valores_N[j]), {0})

TwoDifferent(l) == \E i, j \in 1..Len(l) : l[i] # l[j]

(* momentos_vs_N has returned its results into main *)
Fitted == pc \in { "opt3_print", "menu" }

(* the same of the means of squares main has received *)
ConvergedMain ==
    \A j \in 1..Len(N_vals) : medios_x2[j] = Approx(Float(N_vals[j]), {0})

(* C7 as claimed: with the means of squares at the values they converge *)
(* to, the fit has slope 2 and intercept 0, and D = slope/2 is 1 (each  *)
(* up to the rounding of float64), in momentos_vs_N and as main         *)
(* receives them.                                                       *)
C7_SlopeTwo ==
    /\ (pc = "mo_plot" /\ Converged(mo[1])) =>
          /\ Nominal(mo[1].slope) = Float(2)
          /\ Nominal(mo[1].intercept) = Float(0)
          /\ Nominal(mo[1].D) = Float(1)
    /\ (Fitted /\ ConvergedMain) =>
          /\ Nominal(slope) = Float(2)
          /\ Nominal(D) = Float(1)

(* C7 as amended: with the means of squares at the values they converge *)
(* to, for a list with two different N, the fit has slope 1 and         *)
(* intercept 0, and D = slope/2 is 1/2 (each up to the rounding of      *)
(* float64), in momentos_vs_N and as main receives them.                *)
C7_SlopeOne ==
    /\ (pc = "mo_plot" /\ Converged(mo[1])
           /\ TwoDifferent(mo[1].valores_N)) =>
          /\ Nominal(mo[1].slope) = Float(1)
          /\ Nominal(mo[1].intercept) = Float(0)
          /\ Nominal(mo[1].D) = Rat(1, 2)
          /\ mo[1].D.rnd = mo[1].slope.rnd
    /\ (Fitted /\ ConvergedMain /\ TwoDifferent(N_vals)) =>
          /\ Nominal(slope) = Float(1)
          /\ Nominal(D) = Rat(1, 2)
          /\ D.rnd = slope.rnd

(* a fit of three points, returned and printed *)
C7_Witness ==
    /\ pc = "menu"
    /\ N_vals = << 2, 1, 2 >>
    /\ medios_x2 = << Approx(Float(2), {0}), Approx(Float(1), {0}),
                      Approx(Float(2), {0}) >>
    /\ slope = Approx(Float(1), Rounding)
    /\ D = Approx(Rat(1, 2), Rounding)
    /\ out = << "plot_fit", "Resultados", "Pendiente",
                "Constante de difusion" >>

----------------------------------------------------------------------------
(* Properties of the menu loop (Spec) *)

ValidOptions == { <<"1">>, <<"2">>, <<"3">>, <<"0">> }

(* C3: an input that is not exactly "1", "2", "3" or "0" prints the     *)
(* invalid-option message, generates no walk, asks for no parameter,    *)
(* shows no plot and leads back to the menu prompt, wherever it comes   *)
(* in the sequence of inputs.                                           *)
C3_InvalidOptionReprompts ==
    [][ (pc = "menu" /\ opcion' \notin ValidOptions) =>
            /\ pc' = "menu"
            /\ out' = << "Opcion no valida." >>
            /\ walked' = 0
            /\ asked' = 0
            /\ err' = NoErr
            /\ pf' = << >> /\ mo' = << >>
            /\ UNCHANGED << N, runs, pos_final, finales, lista, N_vals,
                            medios, medios_x2, slope, D, u, v >> ]_vars

C3_Witness ==
    /\ pc = "menu"
    /\ prompts = 2
    /\ opcion = <<" ", "1">>
    /\ out = << "Opcion no valida." >>

(* lines that are no integer, and lines that are no list of integers *)
MalformedNumbers == { <<"a">>, <<"x">>, <<"1", ".", "5">>,
                      <<"U+001C", "1">>, LongDigits, << >> }
MalformedLists == { << >>, <<"1", ",">>, <<"1", ",", "a">> }

ReadsNumber == pc \in { "opt1_N", "opt2_N", "opt2_runs", "opt3_runs" }
ReadsList == pc = "opt3_lista"

(* C4: malformed input at a numeric prompt is not caught: the action is  *)
(* aborted with the failure before any walk, print or plot, and the      *)
(* program ends there, with no further menu prompt.                      *)
C4_MalformedInputAborts ==
    [][ /\ pc # "crash"
        /\ ((ReadsNumber /\ line' \in MalformedNumbers)
                \/ (ReadsList /\ line' \in MalformedLists)) =>
              /\ pc' = "crash"
              /\ err' = "ValueError"
              /\ walked' = 0
              /\ out' = << >>
              /\ pf' = << >> /\ mo' = << >> ]_vars

C4_Witness ==
    /\ pc = "crash"
    /\ err = "ValueError"
    /\ opcion = <<"3">>
    /\ lista = << >>
    /\ asked = 1 /\ walked = 0 /\ out = << >>

(* a count below 0 was given to the action that is running *)
NegativeCount ==
    CASE opcion = <<"1">> -> N < 0
      [] opcion = <<"2">> -> N < 0 \/ runs < 0
      [] opcion = <<"3">> ->
            runs < 0 \/ \E j \in 1..Len(N_vals) : N_vals[j] < 0
      [] OTHER -> FALSE

(* C5: with well-formed parameters (integers, here read as integers not  *)
(* below 0) every action 1, 2, 3 runs to completion and the menu is      *)
(* prompted again; the loop ends only when "0" is read, and nothing      *)
(* follows.                                                              *)
C5_ActionsRunToCompletion ==
    /\ (pc = "crash" =>
          \/ line \in MalformedNumbers \cup MalformedLists
          \/ NegativeCount)
    /\ (pc = "exit" => opcion = <<"0">> /\ ~ENABLED Next)

(* C9: no state carries over: a call of marcha changes no variable but   *)
(* its result, and the results it can have are the final positions of    *)
(* its own step count, whatever ran before.                              *)
C9_ResultsDependOnInputsOnly ==
    /\ (pc = "opt1_marcha" /\ N >= 1) =>
          /\ \A k \in -N..N :
                (ENABLED (Opt1Marcha /\ pos_final' = Int64(k)))
                    <=> k \in Finals(N)
          /\ ~ENABLED (Opt1Marcha /\ pc' # "menu")
          /\ ~ENABLED (Opt1Marcha
                        /\ ~UNCHANGED << opcion, N, runs, finales, lista,
                                         N_vals, medios, medios_x2, slope, D,
                                         u, v, pf, mo >>)
    /\ (pc = "pf_loop" /\ pf[1].i < pf[1].runs /\ pf[1].n_pasos >= 1) =>
          /\ \A k \in -pf[1].n_pasos..pf[1].n_pasos :
                (ENABLED (PosFinalesIter
                            /\ pf'[1].finales[pf[1].i + 1] = Float(k)))
                    <=> k \in Finals(pf[1].n_pasos)
          /\ ~ENABLED (PosFinalesIter /\ pc' # "pf_loop")
          /\ ~ENABLED (PosFinalesIter /\ ~UNCHANGED << mainLocals, mo >>)

C9_Witness ==
    /\ pc = "pf_loop"
    /\ prompts = 2
    /\ Len(mo) = 1
    /\ mo[1].k = 1
    /\ pf[1].n_pasos = 2
    /\ pf[1].i = 1

(* C10 as claimed: for N <= 0 marcha fails by indexing the last element  *)
(* of an empty sequence, and so option 1, 2 or 3 given a step count of 0 *)
(* never completes.                                                      *)
C10_NoStepsIndexError ==
    /\ (Chose(<<"1">>) /\ walked = 1 /\ N <= 0) =>
          (pc = "crash" /\ err = "IndexError")
    /\ (pc = "menu" /\ Chose(<<"2">>)) => N # 0
    /\ (pc = "menu" /\ Chose(<<"3">>)) =>
          \A j \in 1..Len(N_vals) : N_vals[j] # 0

(* C10 as amended: for N = 0 marcha fails by indexing the last element   *)
(* of an empty sequence, for N < 0 it fails when the steps are drawn;    *)
(* option 1 or 2 given a step count of 0, and option 3 given one with a  *)
(* run count other than 0, never completes.                              *)
C10_NoStepsFails ==
    /\ (Chose(<<"1">>) /\ walked = 1 /\ N = 0) =>
          (pc = "crash" /\ err = "IndexError")
    /\ (Chose(<<"1">>) /\ walked = 1 /\ N < 0) =>
          (pc = "crash" /\ err = "ValueError")
    /\ (pc = "menu" /\ Chose(<<"2">>)) => N # 0
    /\ (pc = "menu" /\ Chose(<<"3">>) /\ runs # 0) =>
          \A j \in 1..Len(N_vals) : N_vals[j] # 0

C10_Witness ==
    /\ pc = "crash"
    /\ err = "IndexError"
    /\ opcion = <<"3">>
    /\ lista = <<"1", ",", "0">>
    /\ walked = 2

====
